---- MODULE Spec2Model ----
(***************************************************************************)
(* Model of the autonomous per-domain content scheduler                    *)
(* (utils/auto_content_manager.py, class AutoContentManager) and of the    *)
(* rate-limited Bing credential rotation (utils/bing_image_scraper.py,     *)
(* class BingImageScraper).                                                *)
(*                                                                         *)
(* Specifications:                                                         *)
(*   Spec       the scheduler with the calls made for one domain;          *)
(*   SpecHist   Spec with the history variables kept;                      *)
(*   SpecQueue  Spec with callers of get_content_queue;                    *)
(*   SpecMulti  the scheduler with the calls made for every domain;        *)
(*   SpecPool   the key pool under concurrent search_images calls;         *)
(*   SpecPoolSeq  the key pool under search_images calls made in turn.     *)
(*                                                                         *)
(* Time is counted in ticks of 30 minutes (1800 s), the shortest sleep of  *)
(* the scheduler loop.  A date is kept relative to the current date        *)
(* ("today" or "other"): the loop only ever compares its stored date with  *)
(* datetime.now().date().                                                  *)
(***************************************************************************)
EXTENDS Integers, Sequences, FiniteSets, TLC

(* ------------------------------ bounds -------------------------------- *)
MaxWorkers == 2       \* worker threads ever created
NumCalls == 2         \* start_auto_posting calls between their test and their set at once
MaxRecords == 2       \* content records ever generated
NumSearchers == 2     \* threads inside search_images at once
MaxKeys == 2          \* configured Bing API keys
MaxClock == 2         \* the pool's clock runs 0..MaxClock
MaxServed == 3        \* successful remote calls
MaxAttempts == 1      \* 429 answers within one search_images call
max_requests_per_hour == 3   \* self.max_requests_per_hour, 1000 in the source
RateBuffer == 1              \* the buffer of line 63, 10 in the source

Domains == {"a.com", "b.com"}
OneDomain == {"a.com"}
Workers == 1..MaxWorkers
Searchers == 1..NumSearchers
Keys == 0..(MaxKeys - 1)
MaxPostsChoices == {1}         \* settings['max_posts_per_day'] (form: 1..10)
IntervalChoices == {1}         \* settings['interval_hours'] (form: 1..24)
Settings == [max_posts_per_day : MaxPostsChoices, interval_hours : IntervalChoices]

(* -------------------------- program constants -------------------------- *)
TicksPerHour == 2          \* posting_interval * 3600 s, in ticks of 1800 s
CapBackoffTicks == 2       \* time.sleep(3600)
RetryBackoffTicks == 1     \* time.sleep(1800)
HourTicks == 2             \* timedelta(hours=1)

VARIABLES
  auto_posting_active,  \* domain -> "absent" | "on" | "off"  (dict of bool)
  posting_threads,      \* domain -> worker id, 0 when the domain has no entry
  content_queue,        \* domain -> [present, items]  (dict of lists)
  worker,               \* worker id -> locals and position of _auto_posting_worker
  starting,             \* domain -> number of start_auto_posting calls that passed
                        \* the test of line 70 and have not yet run line 73
  last_ret,             \* what the start or stop call that returned last returned
  nextRec,              \* identity of the next content record
  stoppedAsleep,        \* history: workers that were asleep when their domain was
                        \* stopped and have not yet left that sleep
  producedToday,        \* history: records appended to a domain's queue since the
                        \* date last changed
  returned,             \* the value a caller holds from its last get_content_queue:
                        \* the list object that is a domain's queue ("queue"), or
                        \* a list object of its own ("list"), and what it held
                        \* when it was returned (seen)
  domain_settings,      \* domain -> the max_posts_per_day of the domain's settings
                        \* in MultiDomainManager.domain_settings
  recording,            \* whether the history variables are kept (SpecHist) or
                        \* left at their first values (the other specifications)
  api_keys,             \* len(self.api_keys); the keys are 0..api_keys-1
  current_key_index,    \* self.current_key_index
  request_counts,       \* key -> [present, times]  (dict of timestamp lists)
  searcher,             \* searcher id -> locals and position of search_images
  clock,                \* datetime.now() of the pool, in ticks
  served,               \* history: key -> times of the successful calls made with it
  keyword,              \* the keyword argument of score_images
  images,               \* the image list: the argument of the next call
  image_call            \* the last call on the list, and the one before it

schedVars == <<auto_posting_active, posting_threads, content_queue, worker, starting,
               last_ret, nextRec, stoppedAsleep, producedToday, returned,
               recording, domain_settings>>
poolVars == <<api_keys, current_key_index, request_counts, searcher, clock, served>>
imageVars == <<keyword, images, image_call>>
vars == <<schedVars, poolVars, imageVars>>

NoWorker == [pc |-> "none", domain |-> "a.com", max_posts_per_day |-> 1,
             posting_interval |-> 1, posts_today |-> 0, last_post_date |-> "other",
             sleep_left |-> 0, sleep_kind |-> "none",
             titles |-> "none", article |-> "none", result |-> "none", rec |-> 0,
             saw |-> FALSE]

NoRet == [op |-> "none", domain |-> "a.com", value |-> "none", n |-> 0]

(* a return value; n tells one return from the next *)
Ret(op, d, v) == [op |-> op, domain |-> d, value |-> v, n |-> 1 - last_ret.n]

EmptyQueue == [present |-> FALSE, items |-> <<>>]

NoValue == [kind |-> "none", domain |-> "a.com", seen |-> <<>>, items |-> <<>>]

NoLog == [present |-> FALSE, times |-> <<>>]

(* ret is the value search_images returned last ("[]" an empty list, "images"
   a list of images), exit the line of the return statement that returned it *)
IdleSearcher == [pc |-> "idle", key |-> 0, had |-> FALSE, snap |-> <<>>, used |-> 0,
                 attempts |-> 0, ret |-> "none", exit |-> 0]

(* AutoContentManager.__init__; h tells whether histories are kept *)
InitSchedWith(h) ==
  /\ auto_posting_active = [d \in Domains |-> "absent"]
  /\ posting_threads = [d \in Domains |-> 0]
  /\ content_queue = [d \in Domains |-> EmptyQueue]
  /\ worker = [w \in Workers |-> NoWorker]
  /\ starting = [d \in Domains |-> 0]
  /\ last_ret = NoRet
  /\ nextRec = 1
  /\ stoppedAsleep = {}
  /\ producedToday = [d \in Domains |-> 0]
  /\ returned = NoValue
  /\ recording = h
  /\ domain_settings = [d \in Domains |-> CHOOSE m \in MaxPostsChoices : TRUE]

InitSched == InitSchedWith(FALSE)

(* BingImageScraper.__init__ with n keys configured *)
InitPoolWith(n) ==
  /\ api_keys = n
  /\ current_key_index = 0
  /\ request_counts = [k \in Keys |-> NoLog]
  /\ searcher = [s \in Searchers |-> IdleSearcher]
  /\ clock = 0
  /\ served = [k \in Keys |-> <<>>]

NoCall == [op |-> "none", arg |-> <<>>, n |-> 0, prev_op |-> "none", prev_arg |-> <<>>]

(* no image list is being processed *)
InitNoImages ==
  /\ keyword = <<>>
  /\ images = <<>>
  /\ image_call = NoCall

Init == InitSched /\ InitPoolWith(MaxKeys) /\ InitNoImages

InitHist == InitSchedWith(TRUE) /\ InitPoolWith(MaxKeys) /\ InitNoImages

InitPool == InitSched /\ InitNoImages /\ \E n \in 0..MaxKeys : InitPoolWith(n)

(* self.auto_posting_active.get(domain, False) *)
IsActive(d) == auto_posting_active[d] = "on"

FreeWorkers == {w \in Workers : worker[w].pc = "none"}
RECURSIVE StartingIn(_)
StartingIn(D) ==
  IF D = {} THEN 0
  ELSE LET d == CHOOSE x \in D : TRUE IN starting[d] + StartingIn(D \ {d})

PendingStarts == StartingIn(Domains)
LiveWorkers(d) == {w \in Workers : worker[w].domain = d /\ worker[w].pc \notin {"none", "exit"}}

(* ------------------------- start_auto_posting -------------------------- *)
(* a start that never finds the domain active *)
StartGuardNever(d) == FALSE

(* line 70: the test of the active flag *)
StartGuard(d) == auto_posting_active[d] = "on"

(* lines 70-71: the call finds the domain active and returns the error *)
StartRejected(d) ==
  /\ StartGuard(d)
  /\ last_ret' = Ret("start", d, "already_active")
  /\ UNCHANGED <<auto_posting_active, posting_threads, content_queue, worker, starting,
                 nextRec, stoppedAsleep, producedToday, returned, recording,
                 domain_settings, poolVars, imageVars>>

(* line 70: the call finds the domain inactive and goes on *)
StartCheck(d) ==
  /\ ~StartGuard(d)
  /\ PendingStarts < NumCalls
  /\ Cardinality(FreeWorkers) > PendingStarts
  /\ starting' = [starting EXCEPT ![d] = @ + 1]
  /\ UNCHANGED <<auto_posting_active, posting_threads, content_queue, worker,
                 last_ret, nextRec, stoppedAsleep, producedToday, returned, recording,
                 domain_settings, poolVars, imageVars>>

(* lines 73-89: set the flag, create and start the thread with the call's
   settings s, register it.  The new thread runs lines 114-119 and stands
   before its while test. *)
StartSet(d, s) ==
  /\ starting[d] > 0
  /\ FreeWorkers # {}
  /\ LET w == CHOOSE x \in FreeWorkers : \A y \in FreeWorkers : x <= y
     IN /\ auto_posting_active' = [auto_posting_active EXCEPT ![d] = "on"]
        /\ worker' = [worker EXCEPT ![w] =
               [NoWorker EXCEPT !.pc = "loop", !.domain = d,
                                !.max_posts_per_day = s.max_posts_per_day,
                                !.posting_interval = s.interval_hours]]
        /\ posting_threads' = [posting_threads EXCEPT ![d] = w]
        /\ last_ret' = Ret("start", d, "success")
  /\ starting' = [starting EXCEPT ![d] = @ - 1]
  /\ UNCHANGED <<content_queue, nextRec, stoppedAsleep, producedToday, returned, recording,
                 domain_settings, poolVars, imageVars>>

(* -------------------------- stop_auto_posting -------------------------- *)
(* line 97: the test that decides the error return *)
StopGuard(d) == auto_posting_active[d] = "absent"

(* lines 97-98 *)
StopRejected(d) ==
  /\ StopGuard(d)
  /\ last_ret' = Ret("stop", d, "not_active")
  /\ UNCHANGED <<auto_posting_active, posting_threads, content_queue, worker, starting,
                 nextRec, stoppedAsleep, producedToday, returned, recording,
                 domain_settings, poolVars, imageVars>>

(* a stop that deletes the domain's entries and its queue *)
StopAcceptedDeletes(d) ==
  /\ ~StopGuard(d)
  /\ auto_posting_active' = [auto_posting_active EXCEPT ![d] = "absent"]
  /\ posting_threads' = [posting_threads EXCEPT ![d] = 0]
  /\ content_queue' = [content_queue EXCEPT ![d] = EmptyQueue]
  /\ last_ret' = Ret("stop", d, "success")
  /\ UNCHANGED <<worker, starting, nextRec, stoppedAsleep, producedToday, returned,
                 recording, domain_settings, poolVars, imageVars>>

(* a stop that clears the flag of every domain that has one *)
StopAcceptedEvery(d) ==
  /\ ~StopGuard(d)
  /\ auto_posting_active' =
       [e \in Domains |-> IF auto_posting_active[e] = "absent" THEN "absent" ELSE "off"]
  /\ last_ret' = Ret("stop", d, "success")
  /\ UNCHANGED <<posting_threads, content_queue, worker, starting, nextRec, stoppedAsleep,
                 producedToday, returned, recording, domain_settings, poolVars, imageVars>>

(* lines 100-106 *)
StopAccepted(d) ==
  /\ ~StopGuard(d)
  /\ auto_posting_active' = [auto_posting_active EXCEPT ![d] = "off"]
  /\ last_ret' = Ret("stop", d, "success")
  /\ stoppedAsleep' = IF recording
                      THEN stoppedAsleep \cup
                             {w \in Workers : worker[w].domain = d /\ worker[w].pc = "sleep"}
                      ELSE stoppedAsleep
  /\ UNCHANGED <<posting_threads, content_queue, worker, starting, nextRec,
                 producedToday, returned, recording, domain_settings, poolVars, imageVars>>

(* ------------------------ _auto_posting_worker ------------------------- *)
(* a loop that takes the new date and keeps its counter *)
ResetDailyKeepsCount(wr) == [wr EXCEPT !.last_post_date = "today"]

(* lines 123-128: reset the daily counter when the date changed *)
ResetDaily(wr) ==
  IF wr.last_post_date # "today"
  THEN [wr EXCEPT !.posts_today = 0, !.last_post_date = "today"]
  ELSE wr

(* the daily limit test, off by one *)
CapReachedStrict(posts, cap) == posts > cap

(* line 131: the daily limit test *)
CapReached(posts, cap) == posts >= cap

(* a loop that counts every cycle, failed or not *)
CountedAlways(res) == TRUE

(* line 139: result.get('success') *)
Counted(res) == res = "success"

(* line 121: the while test fails, the thread ends *)
WorkerExit(w) ==
  /\ worker[w].pc = "loop"
  /\ ~IsActive(worker[w].domain)
  /\ worker' = [worker EXCEPT ![w] =
         [NoWorker EXCEPT !.pc = "exit", !.domain = worker[w].domain]]
  /\ UNCHANGED <<auto_posting_active, posting_threads, content_queue, starting, last_ret,
                 nextRec, stoppedAsleep, producedToday, returned, recording,
                 domain_settings, poolVars, imageVars>>

(* lines 121-134: daily limit reached, time.sleep(3600) and continue *)
WorkerCapBackoff(w) ==
  /\ worker[w].pc = "loop"
  /\ IsActive(worker[w].domain)
  /\ LET r == ResetDaily(worker[w])
     IN /\ CapReached(r.posts_today, r.max_posts_per_day)
        /\ worker' = [worker EXCEPT ![w] =
               [r EXCEPT !.pc = "sleep", !.sleep_left = CapBackoffTicks,
                         !.sleep_kind = "cap"]]
  /\ UNCHANGED <<auto_posting_active, posting_threads, content_queue, starting, last_ret,
                 nextRec, stoppedAsleep, producedToday, returned, recording,
                 domain_settings, poolVars, imageVars>>

(* lines 121-137: below the limit, generate_auto_content is called *)
WorkerBeginCycle(w) ==
  /\ worker[w].pc = "loop"
  /\ IsActive(worker[w].domain)
  /\ LET r == ResetDaily(worker[w])
     IN /\ ~CapReached(r.posts_today, r.max_posts_per_day)
        /\ worker' = [worker EXCEPT ![w] = [r EXCEPT !.pc = "gen"]]
  /\ UNCHANGED <<auto_posting_active, posting_threads, content_queue, starting, last_ret,
                 nextRec, stoppedAsleep, producedToday, returned, recording,
                 domain_settings, poolVars, imageVars>>

(* a loop that a failed generation ends *)
AfterGenerateFailureEnds(wr, res) ==
  IF res # "success"
  THEN [NoWorker EXCEPT !.pc = "exit", !.domain = wr.domain]
  ELSE [wr EXCEPT !.result = res, !.posts_today = @ + 1, !.pc = "sleep",
                  !.sleep_left = wr.posting_interval * TicksPerHour,
                  !.sleep_kind = "interval"]

(* lines 139-148: count a success, then time.sleep(posting_interval * 3600);
   a negative length makes time.sleep raise, the handler sleeps 1800 s *)
AfterGenerate(wr, res) ==
  LET counted == [wr EXCEPT !.result = res,
                            !.posts_today = IF Counted(res) THEN @ + 1 ELSE @]
  IN IF wr.posting_interval < 0
     THEN [counted EXCEPT !.pc = "sleep", !.sleep_left = RetryBackoffTicks,
                          !.sleep_kind = "retry"]
     ELSE [counted EXCEPT !.pc = "sleep",
                          !.sleep_left = wr.posting_interval * TicksPerHour,
                          !.sleep_kind = "interval"]

(* ------------------------ generate_auto_content ------------------------ *)
TitleOutcomes == {"empty", "some"}     \* generate_article_titles: [] or a list
ArticleOutcomes == {"error", "ok"}     \* generate_article_content: {'error': ..} or an article

(* a pipeline without the test of line 161: an empty title list is not an error *)
PipelineResultNoTitleTest(titles, article) ==
  IF article = "error" THEN "err_article" ELSE "success"

(* lines 160-179 and 226-231: what generate_auto_content returns *)
PipelineResult(titles, article) ==
  IF titles = "empty" THEN "err_titles"
  ELSE IF article = "error" THEN "err_article"
  ELSE "success"

(* the value held by a caller once domain d's list is taken out of the
   dictionary (line 223, line 386): the list lives on with what it holds *)
Detached(d) ==
  IF returned.kind = "queue" /\ returned.domain = d
  THEN [returned EXCEPT !.kind = "list", !.items = content_queue[d].items]
  ELSE returned

(* what the value held by the caller holds now *)
ReturnedItems ==
  IF returned.kind = "queue" THEN content_queue[returned.domain].items
  ELSE returned.items

(* lines 222-224 *)
QueueAppend(q, rec) == [present |-> TRUE, items |-> Append(q.items, rec)]

(* lines 153-222: the collaborators answer and, when both succeed, the
   record is made and the thread tests whether the domain has a queue (line
   222) and goes on to store the record (StoreRecord).  When one of them
   fails the error is returned, and lines 139-148 of the calling loop follow:
   nothing is counted and the loop goes to sleep.  The image search the
   pipeline makes in between changes only the key pool (SpecPool). *)
Generate(w, titles, article) ==
  /\ worker[w].pc = "gen"
  /\ LET d == worker[w].domain
         res == PipelineResult(titles, article)
         seen == [worker[w] EXCEPT !.titles = titles,
                                   !.article = IF titles = "empty" THEN "none" ELSE article]
     IN IF res = "success"
        THEN /\ nextRec <= MaxRecords
             /\ nextRec' = nextRec + 1
             /\ worker' = [worker EXCEPT ![w] =
                    [seen EXCEPT !.pc = "store", !.rec = nextRec,
                                 !.saw = content_queue[d].present]]
        ELSE /\ nextRec' = nextRec
             /\ worker' = [worker EXCEPT ![w] = AfterGenerate(seen, res)]
  /\ UNCHANGED <<auto_posting_active, posting_threads, content_queue, starting, last_ret,
                 stoppedAsleep, producedToday, returned, recording,
                 domain_settings, poolVars, imageVars>>

(* lines 223-234 followed by lines 139-148 of the calling loop.  A thread
   that saw no queue stores an empty list for the domain and appends its
   record to it; a thread that saw one appends to the domain's list, and
   when the list has been deleted since, the KeyError is caught at line 233
   and an error is returned.  The loop counts a success and goes to sleep. *)
StoreRecord(w) ==
  /\ worker[w].pc = "store"
  /\ LET d == worker[w].domain
         lost == worker[w].saw /\ ~content_queue[d].present
         done == [worker[w] EXCEPT !.rec = 0, !.saw = FALSE]
     IN /\ content_queue' =
             IF lost THEN content_queue
             ELSE [content_queue EXCEPT ![d] =
                     QueueAppend(IF worker[w].saw THEN @ ELSE EmptyQueue, worker[w].rec)]
        /\ producedToday' = IF recording /\ ~lost
                            THEN [producedToday EXCEPT ![d] = @ + 1]
                            ELSE producedToday
        /\ returned' = IF worker[w].saw THEN returned ELSE Detached(d)
        /\ worker' = [worker EXCEPT ![w] =
               AfterGenerate(done, IF lost THEN "err_exception" ELSE "success")]
  /\ UNCHANGED <<auto_posting_active, posting_threads, starting, last_ret, nextRec,
                 stoppedAsleep, recording, domain_settings, poolVars, imageVars>>

(* lines 223-234, the end of generate_auto_content, as a step of its own:
   the record is stored as in StoreRecord and the result returned to the
   loop, which has not yet looked at it *)
PipelineStore(w) ==
  /\ worker[w].pc = "store"
  /\ LET d == worker[w].domain
         lost == worker[w].saw /\ ~content_queue[d].present
     IN /\ content_queue' =
             IF lost THEN content_queue
             ELSE [content_queue EXCEPT ![d] =
                     QueueAppend(IF worker[w].saw THEN @ ELSE EmptyQueue, worker[w].rec)]
        /\ producedToday' = IF recording /\ ~lost
                            THEN [producedToday EXCEPT ![d] = @ + 1]
                            ELSE producedToday
        /\ returned' = IF worker[w].saw THEN returned ELSE Detached(d)
        /\ worker' = [worker EXCEPT ![w] =
               [@ EXCEPT !.pc = "count", !.rec = 0, !.saw = FALSE,
                         !.result = IF lost THEN "err_exception" ELSE "success"]]
  /\ UNCHANGED <<auto_posting_active, posting_threads, starting, last_ret, nextRec,
                 stoppedAsleep, recording, domain_settings, poolVars, imageVars>>

(* lines 139-144 of the loop, after generate_auto_content has returned *)
LoopCount(w) ==
  /\ worker[w].pc = "count"
  /\ worker' = [worker EXCEPT ![w] = AfterGenerate(worker[w], worker[w].result)]
  /\ UNCHANGED <<auto_posting_active, posting_threads, content_queue, starting, last_ret,
                 nextRec, stoppedAsleep, producedToday, returned, recording,
                 domain_settings, poolVars, imageVars>>

(* time.sleep: 1800 s of the sleep pass; the flag is not read meanwhile *)
SleepTick(w) ==
  /\ worker[w].pc = "sleep"
  /\ worker[w].sleep_left > 0
  /\ LET left == worker[w].sleep_left - 1
     IN worker' = [worker EXCEPT ![w] =
            [@ EXCEPT !.sleep_left = left,
                      !.pc = IF left = 0 THEN "loop" ELSE "sleep",
                      !.sleep_kind = IF left = 0 THEN "none" ELSE @,
                      !.titles = "none", !.article = "none", !.result = "none"]]
  /\ stoppedAsleep' = IF worker[w].sleep_left = 1 THEN stoppedAsleep \ {w}
                      ELSE stoppedAsleep
  /\ UNCHANGED <<auto_posting_active, posting_threads, content_queue, starting, last_ret,
                 nextRec, producedToday, returned, recording,
                 domain_settings, poolVars, imageVars>>

(* midnight: datetime.now().date() changes, every stored date is another day's *)
DateRollover ==
  /\ \E w \in Workers : worker[w].last_post_date = "today"
  /\ worker' = [w \in Workers |-> [worker[w] EXCEPT !.last_post_date = "other"]]
  /\ producedToday' = [d \in Domains |-> 0]
  /\ UNCHANGED <<auto_posting_active, posting_threads, content_queue, starting, last_ret,
                 nextRec, stoppedAsleep, returned, recording,
                 domain_settings, poolVars, imageVars>>

(* ------------------------- clear_content_queue ------------------------- *)
(* a clear that empties the queue of every domain *)
ClearEveryQueue(d) ==
  /\ content_queue[d].present
  /\ content_queue' = [e \in Domains |-> EmptyQueue]
  /\ returned' = IF returned.kind = "queue" THEN Detached(returned.domain) ELSE returned
  /\ UNCHANGED <<auto_posting_active, posting_threads, worker, starting, last_ret,
                 nextRec, stoppedAsleep, producedToday, recording,
                 domain_settings, poolVars, imageVars>>

(* lines 385-392; for a domain without a queue nothing changes *)
ClearQueue(d) ==
  /\ content_queue[d].present
  /\ content_queue' = [content_queue EXCEPT ![d] = EmptyQueue]
  /\ returned' = Detached(d)
  /\ UNCHANGED <<auto_posting_active, posting_threads, worker, starting, last_ret,
                 nextRec, stoppedAsleep, producedToday, recording,
                 domain_settings, poolVars, imageVars>>

(* ---------------- get_content_queue, get_auto_posting_status ------------ *)
(* line 380: what get_content_queue(d) returns holds *)
QueueValue(d) == IF content_queue[d].present THEN content_queue[d].items ELSE <<>>

(* line 401: the queue_length of get_auto_posting_status(d) *)
queue_length(d) == Len(QueueValue(d))

(* line 400: the auto_posting_active of get_auto_posting_status(d) *)
is_active(d) == IF auto_posting_active[d] = "absent" THEN FALSE
                ELSE auto_posting_active[d] = "on"

(* line 403: the has_thread of get_auto_posting_status(d) *)
has_thread(d) == posting_threads[d] # 0

(* line 380: self.content_queue.get(domain, []): the domain's list itself,
   or a new empty list when the domain has none *)
GetContentQueue(d) ==
  /\ returned' = IF content_queue[d].present
                 THEN [kind |-> "queue", domain |-> d,
                       seen |-> content_queue[d].items, items |-> <<>>]
                 ELSE [kind |-> "list", domain |-> d, seen |-> <<>>, items |-> <<>>]
  /\ UNCHANGED <<auto_posting_active, posting_threads, content_queue, worker, starting,
                 last_ret, nextRec, stoppedAsleep, producedToday, recording,
                 domain_settings, poolVars, imageVars>>

(* the scheduler with its calls made for the domains of D, but for the end
   of generate_auto_content *)
NextCalls(D) ==
  \/ \E d \in D : StartRejected(d)
  \/ \E d \in D : StartCheck(d)
  \/ \E d \in D, s \in Settings : StartSet(d, s)
  \/ \E d \in D : StopRejected(d)
  \/ \E d \in D : StopAccepted(d)
  \/ \E w \in Workers : WorkerExit(w)
  \/ \E w \in Workers : WorkerCapBackoff(w)
  \/ \E w \in Workers : WorkerBeginCycle(w)
  \/ \E w \in Workers, t \in TitleOutcomes, a \in ArticleOutcomes : Generate(w, t, a)
  \/ \E w \in Workers : SleepTick(w)
  \/ DateRollover
  \/ \E d \in D : ClearQueue(d)

(* the scheduler; the end of generate_auto_content and the loop's lines
   139-148 that follow it are one step *)
NextOn(D) ==
  \/ NextCalls(D)
  \/ \E w \in Workers : StoreRecord(w)

(* the scheduler; the end of generate_auto_content and the loop's lines
   139-148 are steps of their own *)
NextPipeline ==
  \/ NextCalls(OneDomain)
  \/ \E w \in Workers : PipelineStore(w)
  \/ \E w \in Workers : LoopCount(w)

SpecPipeline == Init /\ [][NextPipeline]_vars

Next == NextOn(OneDomain)

NextMulti == NextOn(Domains)

Spec == Init /\ [][Next]_vars

(* the scheduler of Spec with callers that read the queue *)
NextQueue ==
  \/ Next
  \/ \E d \in OneDomain : GetContentQueue(d)

SpecQueue == Init /\ [][NextQueue]_vars

(* the values an update gives to the max_posts_per_day of a domain *)
CapUpdates == {2}

(* MultiDomainManager.update_domain_settings(d, {'auto_posting': {'enabled':
   True, 'max_posts_per_day': m, ..}}) for a domain whose loop is active:
   the settings are stored (lines 138-139) and start_auto_posting is called
   with them (line 145), which finds the domain active and returns the
   error (lines 70-71).  The update of an inactive domain is a
   start_auto_posting call with the new settings (StartCheck, StartSet). *)
UpdateSettings(d, m) ==
  /\ StartGuard(d)
  /\ domain_settings' = [domain_settings EXCEPT ![d] = m]
  /\ last_ret' = Ret("start", d, "already_active")
  /\ UNCHANGED <<auto_posting_active, posting_threads, content_queue, worker, starting,
                 nextRec, stoppedAsleep, producedToday, returned, recording,
                 poolVars, imageVars>>

(* the scheduler of Spec with settings updates *)
NextSettings ==
  \/ Next
  \/ \E d \in OneDomain, m \in CapUpdates : UpdateSettings(d, m)

SpecSettings == Init /\ [][NextSettings]_vars

(* lines 121-137: the step a loop takes at its while test *)
LoopStep(w) == WorkerExit(w) \/ WorkerCapBackoff(w) \/ WorkerBeginCycle(w)

(* the scheduler of Spec with threads that go on running: a sleep comes to
   its end and a thread at its while test takes its step *)
SpecLive ==
  /\ Init
  /\ [][Next]_vars
  /\ \A w \in Workers : WF_vars(SleepTick(w)) /\ WF_vars(LoopStep(w))

(* the scheduler of Spec with the history variables kept *)
SpecHist == InitHist /\ [][Next]_vars

SpecMulti == Init /\ [][NextMulti]_vars

(* ========================= BingImageScraper ============================ *)
(* line 63: max_requests_per_hour - 10 *)
Threshold == max_requests_per_hour - RateBuffer

(* lines 57-60: the request times later than one hour before now *)
RecentRequests(times, now) == SelectSeq(times, LAMBDA t : t > now - HourTicks)

(* lines 33-37: rotate_api_key *)
Rotated(i) == IF api_keys > 1 THEN (i + 1) % api_keys ELSE i

RECURSIVE ServedBy(_)
ServedBy(K) ==
  IF K = {} THEN 0
  ELSE LET k == CHOOSE x \in K : TRUE IN Len(served[k]) + ServedBy(K \ {k})

(* successful remote calls made so far, recorded or not *)
TotalServed == Cardinality({s \in Searchers : searcher[s].pc \in {"record", "append"}})
               + ServedBy(Keys)

(* line 76: a thread enters search_images *)
SearchStart(s) ==
  /\ searcher[s].pc = "idle"
  /\ searcher' = [searcher EXCEPT ![s] = [IdleSearcher EXCEPT !.pc = "check"]]
  /\ UNCHANGED <<api_keys, current_key_index, request_counts, clock, served, schedVars, imageVars>>

(* lines 47-60 of check_rate_limit: pick the current key and read its log,
   keeping the entries of the last hour; without keys check_rate_limit
   returns False and search_images returns [] at line 85 *)
CheckRead(s) ==
  /\ searcher[s].pc = "check"
  /\ IF api_keys = 0
     THEN searcher' = [searcher EXCEPT ![s] =
              [IdleSearcher EXCEPT !.ret = "[]", !.exit = 85]]
     ELSE LET k == current_key_index
          IN searcher' = [searcher EXCEPT ![s] =
                 [@ EXCEPT !.pc = "prune", !.key = k,
                           !.had = request_counts[k].present,
                           !.snap = RecentRequests(request_counts[k].times, clock)]]
  /\ UNCHANGED <<api_keys, current_key_index, request_counts, clock, served, schedVars, imageVars>>

(* lines 56 and 62-66 of check_rate_limit, lines 80-81 of search_images:
   the pruned list is stored, the count is compared with the threshold and
   the cursor is advanced once when the threshold is reached *)
CheckWrite(s) ==
  /\ searcher[s].pc = "prune"
  /\ LET k == searcher[s].key
         log == IF searcher[s].had
                THEN [present |-> TRUE, times |-> searcher[s].snap]
                ELSE request_counts[k]
     IN /\ request_counts' = [request_counts EXCEPT ![k] = log]
        /\ current_key_index' = IF Len(log.times) >= Threshold
                                THEN Rotated(current_key_index)
                                ELSE current_key_index
  /\ searcher' = [searcher EXCEPT ![s] = [@ EXCEPT !.pc = "request", !.snap = <<>>]]
  /\ UNCHANGED <<api_keys, clock, served, schedVars, imageVars>>

(* lines 83-116: the key under the cursor is selected and the remote call
   made; 429 rotates and calls search_images again, another failure
   status returns [] *)
Request(s, status) ==
  /\ searcher[s].pc = "request"
  /\ CASE status = 200 ->
            /\ TotalServed < MaxServed
            /\ searcher' = [searcher EXCEPT ![s] =
                   [@ EXCEPT !.pc = "record", !.used = current_key_index]]
            /\ UNCHANGED current_key_index
       [] status = 429 ->
            /\ searcher[s].attempts < MaxAttempts
            /\ current_key_index' = Rotated(current_key_index)
            /\ searcher' = [searcher EXCEPT ![s] =
                   [@ EXCEPT !.pc = "check", !.attempts = @ + 1,
                             !.used = current_key_index]]
       [] OTHER ->
            /\ searcher' = [searcher EXCEPT ![s] =
                   [IdleSearcher EXCEPT !.ret = "[]", !.exit = 115]]
            /\ UNCHANGED current_key_index
  /\ UNCHANGED <<api_keys, request_counts, clock, served, schedVars, imageVars>>

(* lines 70-72 of record_request: the key under the cursor now, and whether
   it has a log *)
RecordRead(s) ==
  /\ searcher[s].pc = "record"
  /\ searcher' = [searcher EXCEPT ![s] =
         [@ EXCEPT !.pc = "append", !.key = current_key_index,
                   !.had = request_counts[current_key_index].present]]
  /\ UNCHANGED <<api_keys, current_key_index, request_counts, clock, served, schedVars, imageVars>>

(* line 144: what a search that succeeded returns, the valid images of the
   answer, which may be none *)
SearchOutcomes == {"[]", "images"}

(* lines 73-74 of record_request and lines 119-144 of search_images: a
   missing log is created empty, the time is appended, the images r of the
   answer returned *)
RecordAppend(s, r) ==
  /\ searcher[s].pc = "append"
  /\ LET k == searcher[s].key
         old == IF searcher[s].had THEN request_counts[k].times ELSE <<>>
     IN request_counts' = [request_counts EXCEPT ![k] =
            [present |-> TRUE, times |-> Append(old, clock)]]
  /\ served' = [served EXCEPT ![searcher[s].used] = Append(@, clock)]
  /\ searcher' = [searcher EXCEPT ![s] = [IdleSearcher EXCEPT !.ret = r, !.exit = 144]]
  /\ UNCHANGED <<api_keys, current_key_index, clock, schedVars, imageVars>>

(* datetime.now() advances by half an hour *)
Tick ==
  /\ clock < MaxClock
  /\ clock' = clock + 1
  /\ UNCHANGED <<api_keys, current_key_index, request_counts, searcher, served,
                 schedVars, imageVars>>

(* the pool used by the threads of S *)
NextPoolOn(S) ==
  \/ \E s \in S : SearchStart(s)
  \/ \E s \in S : CheckRead(s)
  \/ \E s \in S : CheckWrite(s)
  \/ \E s \in S, status \in {200, 429, 500} : Request(s, status)
  \/ \E s \in S : RecordRead(s)
  \/ \E s \in S, r \in SearchOutcomes : RecordAppend(s, r)
  \/ Tick

NextPool == NextPoolOn(Searchers)

(* one thread: the calls of search_images follow one another *)
NextPoolSeq == NextPoolOn({1})

SpecPool == InitPool /\ [][NextPool]_vars

SpecPoolSeq == InitPool /\ [][NextPoolSeq]_vars

(* ============================ properties =============================== *)
(* a start call returned v in this step *)
StartReturned(v) ==
  last_ret'.n # last_ret.n /\ last_ret'.op = "start" /\ last_ret'.value = v

(* a stop call returned v in this step *)
StopReturned(v) ==
  last_ret'.n # last_ret.n /\ last_ret'.op = "stop" /\ last_ret'.value = v

LargestCap == CHOOSE m \in MaxPostsChoices : \A n \in MaxPostsChoices : n <= m

(* C1: at every moment a domain has at most one scheduling loop, that is at
   most one worker thread that has not left its while loop. *)
C1_OneLoopPerDomain ==
  \A d \in Domains : Cardinality(LiveWorkers(d)) <= 1

(* C2: of the start calls for one domain that interleave, only one returns
   success and creates a worker: a call that passed the test of the flag
   does not go on to set the flag and create a worker when the domain has
   been made active in the meantime. *)
C2_OneStartSucceeds ==
  [][\A d \in Domains : starting'[d] < starting[d] => ~IsActive(d)]_vars

(* C3: the records produced for a domain since the date last changed never
   number more than the configured max_posts_per_day. *)
C3_DailyRecordsWithinCap ==
  \A d \in Domains : producedToday[d] <= LargestCap

(* C4: no key has more requests recorded within the last hour than
   max_requests_per_hour minus the buffer. *)
C4_RecordedWithinThreshold ==
  \A k \in Keys : Len(RecentRequests(request_counts[k].times, clock)) <= Threshold

(* C5: each successful remote call is recorded once, against the key it was
   made with: for every key, the requests recorded within the last hour are
   the successful calls made with that key within the last hour. *)
C5_RecordedAgainstUsedKey ==
  \A k \in Keys :
    RecentRequests(request_counts[k].times, clock) = RecentRequests(served[k], clock)

(* C6: a start call on a domain whose scheduler is running returns the
   already-active error and changes nothing: no call passes the test of the
   flag while the domain is active, a call that decides while the domain is
   active returns the error, and the step that returns the error leaves the
   flag, the registered thread, the workers and the queues as they were. *)
C6_StartOnActiveRejected ==
  [][/\ \A d \in Domains : starting'[d] > starting[d] => ~IsActive(d)
     /\ StartReturned("already_active")
          => /\ IsActive(last_ret'.domain)
             /\ UNCHANGED <<auto_posting_active, posting_threads, worker,
                            content_queue, starting, nextRec>>
     /\ (last_ret'.n # last_ret.n /\ last_ret'.op = "start" /\ starting' = starting
           /\ IsActive(last_ret'.domain))
          => last_ret'.value = "already_active"]_vars

(* C6 witness: a start call has returned the error for a domain that is
   active with its one registered loop. *)
C6_Witness ==
  /\ last_ret.op = "start" /\ last_ret.value = "already_active"
  /\ IsActive(last_ret.domain)
  /\ LiveWorkers(last_ret.domain) = {posting_threads[last_ret.domain]}

(* C7: a stop call returns success only for a domain whose scheduler is
   running, and the not-active error otherwise. *)
C7_StopResult ==
  [][/\ StopReturned("success") => IsActive(last_ret'.domain)
     /\ StopReturned("not_active") => ~IsActive(last_ret'.domain)]_vars

(* C8: a loop whose domain was stopped while it slept does not sleep on for
   half an hour: once 1800 s of its sleep pass, it is awake. *)
C8_StopEndsSleep ==
  [][\A w \in Workers :
        (w \in stoppedAsleep /\ worker[w].pc = "sleep"
           /\ worker'[w].sleep_left # worker[w].sleep_left)
          => worker'[w].pc # "sleep"]_vars

(* C9: when the title collaborator returns an empty list, the generation
   returns the title error, no record is created or appended to any queue,
   and the loop's posts_today stays as it was. *)
C9_EmptyTitlesNoRecord ==
  [][\A w \in Workers :
        (worker[w].pc = "gen" /\ worker'[w].pc # "gen" /\ worker'[w].titles = "empty")
          => /\ worker'[w].result = "err_titles"
             /\ content_queue' = content_queue
             /\ nextRec' = nextRec
             /\ worker'[w].posts_today = worker[w].posts_today]_vars

(* C9 witness: a loop sleeps after a generation whose title list was empty. *)
C9_Witness ==
  \E w \in Workers :
    /\ worker[w].pc = "sleep" /\ worker[w].titles = "empty"
    /\ worker[w].result = "err_titles" /\ worker[w].posts_today = 0

(* C10: when the article collaborator returns an error, the generation
   returns that error, the queues stay as they were and the loop's
   posts_today stays as it was. *)
C10_ArticleErrorPropagated ==
  [][\A w \in Workers :
        (worker[w].pc = "gen" /\ worker'[w].pc # "gen" /\ worker'[w].article = "error")
          => /\ worker'[w].result = "err_article"
             /\ content_queue' = content_queue
             /\ nextRec' = nextRec
             /\ worker'[w].posts_today = worker[w].posts_today]_vars

(* C10 witness: a loop sleeps after a generation whose article failed. *)
C10_Witness ==
  \E w \in Workers :
    /\ worker[w].pc = "sleep" /\ worker[w].titles = "some"
    /\ worker[w].article = "error" /\ worker[w].result = "err_article"
    /\ worker[w].posts_today = 0

(* C11: without configured keys a search fails with an error of its own: what
   it returns is none of the values a search that succeeded returns. *)
C11_NoCredentialsDistinct ==
  \A s \in Searchers : searcher[s].exit = 85 => searcher[s].ret \notin SearchOutcomes

(* the requests recorded for key k within the last hour *)
RecordedRecently(k) == Len(RecentRequests(request_counts[k].times, clock))

(* the key after k in round-robin order *)
NextKey(k) == (k + 1) % api_keys

(* C12: when the key under the cursor has reached the threshold and the key
   after it is below the threshold, the acquisition moves the cursor to the
   key after it, and the remote call is made with the key under the cursor. *)
C12_RotatesToNextKey ==
  [][\A s \in Searchers :
        /\ (/\ searcher[s].pc = "prune" /\ searcher'[s].pc = "request"
            /\ api_keys > 1
            /\ RecordedRecently(current_key_index) >= Threshold
            /\ RecordedRecently(NextKey(current_key_index)) < Threshold)
             => current_key_index' = NextKey(current_key_index)
        /\ (searcher[s].pc = "request" /\ searcher'[s].pc = "record")
             => searcher'[s].used = current_key_index]_vars

(* C13: a domain's queue changes only by an append at its tail or by being
   cleared: no step reorders, drops or merges the records already queued. *)
C13_QueueInsertionOrdered ==
  [][\A d \in Domains :
        content_queue'[d] # content_queue[d]
          => \/ ~content_queue'[d].present
             \/ \E r \in 1..MaxRecords :
                   content_queue'[d].items = Append(content_queue[d].items, r)]_vars

(* C14: the value get_content_queue returned is a snapshot: whatever is
   appended to the queue afterwards, it holds what it held when returned. *)
C14_ReturnedIsSnapshot ==
  returned.kind # "none" => ReturnedItems = returned.seen

(* C15: a clear leaves the domain's queue empty (queue_length 0, the empty
   list from get_content_queue) and leaves the active flags and the queues
   of the other domains as they were; an empty queue stays empty until a
   worker of the domain appends a record. *)
C15_ClearEmptiesQueue ==
  [][\A d \in Domains :
        /\ (content_queue[d].present /\ ~content_queue'[d].present)
             => /\ queue_length(d)' = 0
                /\ QueueValue(d)' = <<>>
                /\ auto_posting_active' = auto_posting_active
                /\ \A e \in Domains \ {d} : content_queue'[e] = content_queue[e]
        /\ (queue_length(d) = 0 /\ queue_length(d)' > 0)
             => \E w \in Workers : /\ worker[w].pc = "store" /\ worker'[w].pc # "store"
                                    /\ worker[w].domain = d]_vars

(* C15 witness: a domain whose worker has queued a record has no queue any
   more, while the domain is active and another domain holds a record. *)
C15_Witness ==
  \E d \in Domains, e \in Domains, w \in Workers :
    /\ worker[w].domain = d /\ worker[w].pc = "sleep" /\ worker[w].result = "success"
    /\ queue_length(d) = 0 /\ IsActive(d)
    /\ e # d /\ queue_length(e) > 0

(* C16: a stop that succeeds only marks the domain inactive: the domain
   keeps its flag entry and its registered thread, and every queue, read
   through get_content_queue and get_auto_posting_status, is what it was. *)
C16_StopKeepsEntryAndQueue ==
  [][\A d \in Domains :
       (StopReturned("success") /\ last_ret'.domain = d)
       =>    /\ auto_posting_active'[d] = "off"
             /\ is_active(d)' = FALSE
             /\ posting_threads' = posting_threads
             /\ has_thread(d)' = has_thread(d)
             /\ content_queue' = content_queue
             /\ QueueValue(d)' = QueueValue(d)
             /\ queue_length(d)' = queue_length(d)]_vars

(* C16 witness: a stop has succeeded for a domain that holds records: the
   domain is inactive, registered, and its queue is not empty. *)
C16_Witness ==
  /\ last_ret.op = "stop" /\ last_ret.value = "success"
  /\ auto_posting_active[last_ret.domain] = "off"
  /\ has_thread(last_ret.domain)
  /\ queue_length(last_ret.domain) > 0

(* ------------------------------------------------------------------ *)
(* BingImageScraper.remove_duplicates and score_images                 *)
(* ------------------------------------------------------------------ *)

MaxImages == 2
MaxImageCalls == 2

(* str.lower() on the letters the names, keywords and formats use *)
lower_char(ch) ==
  CASE ch = "C" -> "c"
    [] ch = "P" -> "p"
    [] ch = "N" -> "n"
    [] ch = "G" -> "g"
    [] OTHER -> ch

lower(str) == [i \in 1..Len(str) |-> lower_char(str[i])]

(* sub in str *)
Contains(sub, str) ==
  \E i \in 0..(Len(str) - Len(sub)) : SubSeq(str, i + 1, i + Len(sub)) = sub

Urls == {"u1", "u2"}
Names == {<<"t">>, <<"t", "C">>}
Keywords == {<<"C">>}
Widths == {600, 800}
Heights == {500, 900}
Formats == {<<"P", "N", "G">>, <<"g", "i", "f">>}
AllowedFormats == {<<"j", "p", "e", "g">>, <<"j", "p", "g">>, <<"p", "n", "g">>,
                   <<"w", "e", "b", "p">>}

(* the image_data dictionaries search_images builds; relevance_score 0 is the
   value every reader takes for an image not scored yet *)
ImageData ==
  [url : Urls, name : Names, width : Widths, height : Heights,
   encoding_format : Formats, is_family_friendly : BOOLEAN, relevance_score : {0}]

ImageLists == UNION {[1..n -> ImageData] : n \in 0..MaxImages}

InitImages ==
  /\ InitSched /\ InitPoolWith(MaxKeys)
  /\ keyword \in Keywords
  /\ images \in ImageLists
  /\ image_call = NoCall

(* a loop that keeps the last occurrence of every URL *)
RECURSIVE keep_last_loop(_, _)
keep_last_loop(rest, unique_images) ==
  IF rest = <<>> THEN unique_images
  ELSE LET image == Head(rest)
       IN IF \E j \in 1..Len(Tail(rest)) : Tail(rest)[j].url = image.url
          THEN keep_last_loop(Tail(rest), unique_images)
          ELSE keep_last_loop(Tail(rest), Append(unique_images, image))

keep_last_occurrence(list) == keep_last_loop(list, <<>>)

(* lines 232-236: the loop over images with seen_urls and unique_images *)
RECURSIVE remove_duplicates_loop(_, _, _)
remove_duplicates_loop(rest, seen_urls, unique_images) ==
  IF rest = <<>> THEN unique_images
  ELSE LET image == Head(rest)
           url == image.url
       IN IF url \notin seen_urls
          THEN remove_duplicates_loop(Tail(rest), seen_urls \cup {url},
                                      Append(unique_images, image))
          ELSE remove_duplicates_loop(Tail(rest), seen_urls, unique_images)

(* lines 229-238 *)
remove_duplicates(list) == remove_duplicates_loop(list, {}, <<>>)

(* lines 244-266: the score of one image *)
score(image, kw) ==
  (IF Contains(lower(kw), lower(image.name)) THEN 10 ELSE 0)
  + (IF image.width > image.height THEN 5 ELSE 0)
  + (IF image.width >= 800 THEN 5 ELSE 0)
  + (IF lower(image.encoding_format) \in AllowedFormats THEN 3 ELSE 0)
  + (IF image.is_family_friendly THEN 2 ELSE 0)

(* line 268, for every image of the list *)
with_relevance_score(list, kw) ==
  [i \in 1..Len(list) |-> [list[i] EXCEPT !.relevance_score = score(list[i], kw)]]

(* a sort that puts the smallest relevance_score first *)
RECURSIVE sorted_ascending(_)
sorted_ascending(list) ==
  IF list = <<>> THEN <<>>
  ELSE LET x == list[Len(list)]
           before == sorted_ascending(SubSeq(list, 1, Len(list) - 1))
           k == Cardinality({i \in 1..Len(before) :
                               before[i].relevance_score <= x.relevance_score})
       IN SubSeq(before, 1, k) \o <<x>> \o SubSeq(before, k + 1, Len(before))

(* line 271: sorted(images, key=relevance_score, reverse=True), a stable sort:
   each image goes behind the images of a score at least its own *)
RECURSIVE sorted_by_relevance(_)
sorted_by_relevance(list) ==
  IF list = <<>> THEN <<>>
  ELSE LET x == list[Len(list)]
           before == sorted_by_relevance(SubSeq(list, 1, Len(list) - 1))
           k == Cardinality({i \in 1..Len(before) :
                               before[i].relevance_score >= x.relevance_score})
       IN SubSeq(before, 1, k) \o <<x>> \o SubSeq(before, k + 1, Len(before))

(* lines 242-271 *)
score_images(list, kw) == sorted_by_relevance(with_relevance_score(list, kw))

ImageCall(op) ==
  [op |-> op, arg |-> images, n |-> image_call.n + 1,
   prev_op |-> image_call.op, prev_arg |-> image_call.arg]

(* remove_duplicates(images) *)
RemoveDuplicates ==
  /\ image_call.n < MaxImageCalls
  /\ images' = remove_duplicates(images)
  /\ image_call' = ImageCall("remove_duplicates")
  /\ UNCHANGED <<keyword, schedVars, poolVars>>

(* score_images(images, keyword) *)
ScoreImages ==
  /\ image_call.n < MaxImageCalls
  /\ images' = score_images(images, keyword)
  /\ image_call' = ImageCall("score_images")
  /\ UNCHANGED <<keyword, schedVars, poolVars>>

NextImages ==
  \/ RemoveDuplicates
  \/ ScoreImages

SpecImages == InitImages /\ [][NextImages]_vars

(* the positions of a list that hold the first image of their URL *)
FirstOccurrences(list) ==
  {i \in 1..Len(list) : \A j \in 1..(i - 1) : list[j].url # list[i].url}

(* an image without its relevance_score *)
Unscored(image) == [image EXCEPT !.relevance_score = 0]

(* C17: score_images returns the images of its argument, each with the score
   10 (keyword in the name) + 5 (width > height) + 5 (width >= 800)
   + 3 (format in the allow-list) + 2 (family-friendly), in descending order
   of that score, images of equal score in their original relative order. *)
C17_SortedByScoreStable ==
  [][(image_call'.n # image_call.n /\ image_call'.op = "score_images")
     => LET arg == image_call'.arg
            points(im) ==
              (IF Contains(lower(keyword), lower(im.name)) THEN 10 ELSE 0)
              + (IF im.width > im.height THEN 5 ELSE 0)
              + (IF im.width >= 800 THEN 5 ELSE 0)
              + (IF lower(im.encoding_format) \in AllowedFormats THEN 3 ELSE 0)
              + (IF im.is_family_friendly THEN 2 ELSE 0)
        IN /\ Len(images') = Len(arg)
           /\ \E f \in [1..Len(arg) -> 1..Len(arg)] :
                /\ \A a, b \in 1..Len(arg) : a # b => f[a] # f[b]
                /\ \A a \in 1..Len(arg) :
                     /\ Unscored(images'[a]) = Unscored(arg[f[a]])
                     /\ images'[a].relevance_score = points(arg[f[a]])
                /\ \A a, b \in 1..Len(arg) :
                     a < b => \/ points(arg[f[a]]) > points(arg[f[b]])
                              \/ /\ points(arg[f[a]]) = points(arg[f[b]])
                                 /\ f[a] < f[b]]_vars

(* C17 witness: score_images has returned two different images, the second
   of its argument first. *)
C17_Witness ==
  /\ image_call.op = "score_images"
  /\ Len(images) = 2
  /\ Unscored(images[1]) = Unscored(image_call.arg[2])
  /\ Unscored(images[1]) # Unscored(image_call.arg[1])
  /\ images[1].relevance_score > images[2].relevance_score

(* C18: remove_duplicates returns the first image of every URL of its
   argument, in the argument's order, and nothing else; applied to its own
   result it returns that result. *)
C18_FirstOccurrencesIdempotent ==
  [][(image_call'.n # image_call.n /\ image_call'.op = "remove_duplicates")
     => LET arg == image_call'.arg
            kept == FirstOccurrences(arg)
        IN /\ Len(images') = Cardinality(kept)
           /\ \E f \in [1..Cardinality(kept) -> kept] :
                /\ \A a, b \in 1..Cardinality(kept) : a < b => f[a] < f[b]
                /\ \A a \in 1..Cardinality(kept) : images'[a] = arg[f[a]]
           /\ (image_call.op = "remove_duplicates" => images' = images)]_vars

(* C18 witness: remove_duplicates has been applied twice in a row, the first
   time to a list that repeats a URL with a different image. *)
C18_Witness ==
  /\ image_call.op = "remove_duplicates"
  /\ image_call.prev_op = "remove_duplicates"
  /\ Len(image_call.prev_arg) = 2
  /\ image_call.prev_arg[1].url = image_call.prev_arg[2].url
  /\ image_call.prev_arg[1] # image_call.prev_arg[2]
  /\ image_call.arg = <<image_call.prev_arg[1]>>
  /\ images = image_call.arg

(* the configured keys *)
ConfiguredKeys == 0..(api_keys - 1)

(* C19: an acquisition that finds its key at the threshold leaves the cursor
   on a key below the threshold when there is one, and on a key with the
   fewest requests recorded in the last hour when there is none. *)
C19_RechecksThenLeastUsed ==
  [][\A s \in Searchers :
       (searcher[s].pc = "prune" /\ searcher'[s].pc = "request"
        /\ RecordedRecently(searcher[s].key)' >= Threshold)
       => IF \E k \in ConfiguredKeys : RecordedRecently(k)' < Threshold
          THEN RecordedRecently(current_key_index)' < Threshold
          ELSE \A k \in ConfiguredKeys :
                 RecordedRecently(current_key_index)' <= RecordedRecently(k)']_vars

(* C20: a 429 answer moves the cursor to the next key whatever the count of
   the throttled key, and the request of the retry is made with a key other
   than the throttled one (pools of two keys or more). *)
C20_ThrottleRotatesAndRetriesElsewhere ==
  [][\A s \in Searchers :
       /\ (searcher[s].pc = "request" /\ searcher'[s].pc = "check")
            => current_key_index' = NextKey(current_key_index)
       /\ (searcher[s].pc = "request" /\ searcher'[s].pc # "request"
           /\ searcher[s].attempts > 0 /\ api_keys > 1)
            => current_key_index # searcher[s].used]_vars

(* C21: a loop that stands at its while test with the day's counter at the
   cap does not call generate_auto_content: its next step leaves the loop
   or begins the sleep of 3600 s, with the counter and every queue as they
   were; a loop that is inside generate_auto_content has its counter below
   the cap. *)
C21_AtCapOnlyBacksOff ==
  [][\A w \in Workers :
       /\ (worker[w].pc = "loop" /\ worker'[w].pc # "loop"
           /\ worker[w].last_post_date = "today"
           /\ worker[w].posts_today >= worker[w].max_posts_per_day)
            => /\ worker'[w].pc \in {"sleep", "exit"}
               /\ worker'[w].pc = "sleep"
                    => /\ worker'[w].sleep_kind = "cap"
                       /\ worker'[w].sleep_left = CapBackoffTicks
                       /\ worker'[w].posts_today = worker[w].posts_today
               /\ content_queue' = content_queue
               /\ nextRec' = nextRec
       /\ worker'[w].pc \in {"gen", "store"}
            => worker'[w].posts_today < worker'[w].max_posts_per_day]_vars

(* C21 witness: a loop that queued a record and counted it up to the cap is
   in the sleep of the cap, the queue holding that one record. *)
C21_Witness ==
  \E w \in Workers :
    /\ worker[w].pc = "sleep" /\ worker[w].sleep_kind = "cap"
    /\ worker[w].posts_today = worker[w].max_posts_per_day
    /\ queue_length(worker[w].domain) = worker[w].posts_today

(* C22: a loop that stands at its while test, active, with the day's counter
   below the max_posts_per_day of the domain's settings as they are now,
   goes on to generate. *)
C22_RaisedCapNoticed ==
  [][\A w \in Workers :
       (worker[w].pc = "loop" /\ worker'[w].pc # "loop"
        /\ IsActive(worker[w].domain)
        /\ worker[w].last_post_date = "today"
        /\ worker[w].posts_today < domain_settings[worker[w].domain])
       => worker'[w].pc = "gen"]_vars

(* C23: a loop that stands at its while test, active, holding another day's
   date, sets its counter to 0 and its date to today before the cap test,
   and goes on to generate. *)
C23_NewDayResetsCounter ==
  [][\A w \in Workers :
       (worker[w].pc = "loop" /\ worker'[w].pc # "loop"
        /\ IsActive(worker[w].domain)
        /\ worker[w].last_post_date # "today")
       => /\ worker'[w].pc = "gen"
          /\ worker'[w].posts_today = 0
          /\ worker'[w].last_post_date = "today"]_vars

(* C23 witness: the only loop there has been queued a record, which put its
   counter at the cap, and is generating again with its counter at 0. *)
C23_Witness ==
  \E w \in Workers :
    /\ worker[w].pc = "gen" /\ worker[w].posts_today = 0
    /\ worker[w].last_post_date = "today"
    /\ queue_length(worker[w].domain) = worker[w].max_posts_per_day
    /\ \A v \in Workers \ {w} : worker[v].pc = "none"

(* C24: a loop that sleeps after a generation that returned an error sleeps
   the retry backoff of 1800 s, not the posting interval. *)
C24_FailureSleepsRetryBackoff ==
  \A w \in Workers :
    (worker[w].pc = "sleep"
     /\ worker[w].result \in {"err_titles", "err_article", "err_exception"})
    => /\ worker[w].sleep_kind = "retry"
       /\ worker[w].sleep_left <= RetryBackoffTicks

(* the error results of generate_auto_content *)
ErrorResults == {"err_titles", "err_article", "err_exception"}

(* C25: a loop ends only when its domain's flag is off, and a loop that
   sleeps after a failed generation comes to generate again unless the flag
   is turned off. *)
C25_FailureKeepsLoopRunning ==
  /\ [][\A w \in Workers :
          (worker[w].pc # "exit" /\ worker'[w].pc = "exit")
          => ~IsActive(worker[w].domain)]_vars
  /\ \A w \in Workers :
       (worker[w].pc = "sleep" /\ worker[w].result \in ErrorResults)
       ~> (worker[w].pc = "gen" \/ ~IsActive(worker[w].domain))

(* C25 witness: a generation of the domain's registered loop has failed
   through an exception caught at line 233; the loop is alive, asleep, and
   the domain is active. *)
C25_Witness ==
  \E w \in Workers :
    /\ worker[w].pc = "sleep" /\ worker[w].result = "err_exception"
    /\ posting_threads[worker[w].domain] = w
    /\ IsActive(worker[w].domain)

(* C26: every step that makes a domain's queue longer is a step in which a
   loop of that domain counts a post. *)
C26_AppendIsCounted ==
  [][\A d \in Domains :
       queue_length(d)' > queue_length(d)
       => \E w \in Workers :
            /\ worker[w].domain = d
            /\ worker'[w].posts_today = worker[w].posts_today + 1]_vars

(* the scheduling state of domain d: its flag, its registered thread, its
   queue and the daily counters of its loops *)
DomainState(d) ==
  <<auto_posting_active[d], posting_threads[d], content_queue[d],
    [w \in Workers |-> IF worker[w].domain = d /\ worker[w].pc # "none"
                       THEN worker[w].posts_today ELSE 0]>>

(* a step of start, stop or clear for domain d, or of a loop of domain d *)
OperationOf(d) ==
  \/ StartRejected(d) \/ StartCheck(d) \/ \E s \in Settings : StartSet(d, s)
  \/ StopRejected(d) \/ StopAccepted(d) \/ ClearQueue(d)
  \/ \E w \in Workers :
       /\ worker[w].domain = d
       /\ \/ WorkerExit(w) \/ WorkerCapBackoff(w) \/ WorkerBeginCycle(w)
          \/ \E t \in TitleOutcomes, a \in ArticleOutcomes : Generate(w, t, a)
          \/ StoreRecord(w) \/ SleepTick(w)

(* C27: a start, stop, clear or loop step of one domain leaves the flag, the
   registered thread, the queue and the daily counters of every other domain
   as they were. *)
C27_DomainsIndependent ==
  [][\A a, b \in Domains :
       (a # b /\ OperationOf(a)) => DomainState(b)' = DomainState(b)]_vars

(* C27 witness: both domains have a loop and a queued record, and the stop
   that returned last has turned one of them off while the other is on. *)
C27_Witness ==
  \E a, b \in Domains :
    /\ a # b
    /\ last_ret.op = "stop" /\ last_ret.value = "success" /\ last_ret.domain = a
    /\ auto_posting_active[a] = "off" /\ auto_posting_active[b] = "on"
    /\ queue_length(a) > 0 /\ queue_length(b) > 0

(* C28: while a domain's flag is off (a stop has succeeded and no start has
   set the flag since) no step makes the domain's queue longer. *)
C28_NoAppendAfterStop ==
  [][\A d \in Domains :
       (auto_posting_active[d] = "off" /\ auto_posting_active'[d] = "off")
       => queue_length(d)' <= queue_length(d)]_vars

(* C29: a generation that has made its record and goes on to store it
   returns success, and its record is then the last of the domain's queue,
   whatever clear_content_queue does in between. *)
C29_ClearNeverFailsGeneration ==
  [][\A w \in Workers :
       (worker[w].pc = "store" /\ worker'[w].pc # "store")
       => /\ worker'[w].result = "success"
          /\ queue_length(worker[w].domain)' > 0
          /\ QueueValue(worker[w].domain)'[queue_length(worker[w].domain)']
               = worker[w].rec]_vars

(* C30: a search_images call that is about to make a remote request has had
   fewer 429 answers than there are keys: it makes at most one attempt per
   key. *)
C30_AttemptsBoundedByKeys ==
  \A s \in Searchers :
    searcher[s].pc = "request" => searcher[s].attempts < api_keys

====
